---- MODULE Spec2Model ----
(***************************************************************************)
(* Wire-format core of quinn: the transport-parameter codec                *)
(* (quinn-proto/src/transport_parameters.rs) and the early packet-header   *)
(* codec with its variable-length integer (src/proto.rs).                  *)
(*                                                                         *)
(* Representation.  A byte is a number in 0..255 and a buffer a sequence   *)
(* of bytes.  TLC's integers are 32-bit, so a u64 is its 8 big-endian      *)
(* bytes and a u32 its 4 big-endian bytes; u16 and u8 are numbers.         *)
(* Option<T> is a sequence of length 0 (None) or 1 (Some).  A Result is a  *)
(* record [tag, val]: tag "Ok" with val = <<value>>, or an error tag with  *)
(* val = <<>>.  The tag "Abort" stands for a Rust panic (a failed unwrap,  *)
(* an out-of-range index or slice, an explicit panic!).                    *)
(***************************************************************************)
EXTENDS Integers, Sequences, FiniteSets, TLC

VARIABLES pc, writer, side, params, pre, msg, wire, base, result,
          val, vout, dbuf, packet, sub, paout

vars == <<pc, writer, side, params, pre, msg, wire, base, result,
          val, vout, dbuf, packet, sub, paout>>

---------------------------------------------------------------------------
(* Bytes and fixed-width integers *)

RECURSIVE Rep(_, _)
Rep(b, n) == IF n = 0 THEN <<>> ELSE <<b>> \o Rep(b, n - 1)

Drop(s, n) == SubSeq(s, n + 1, Len(s))

Take(s, n) == SubSeq(s, 1, n)

RECURSIVE Flatten(_)
Flatten(ss) == IF ss = <<>> THEN <<>> ELSE Head(ss) \o Flatten(Tail(ss))

\* a u16 written big-endian
U16Bytes(n) == <<(n \div 256) % 256, n % 256>>

\* a u16 read big-endian
U16Of(b) == b[1] * 256 + b[2]

\* a number below 2^31 as a u64
U64(n) ==
    <<0, 0, 0, 0, (n \div 16777216) % 256, (n \div 65536) % 256, (n \div 256) % 256, n % 256>>

\* a <= b on big-endian byte strings of equal length
RECURSIVE Leq(_, _)
Leq(a, b) ==
    IF a = <<>> THEN TRUE
    ELSE IF Head(a) # Head(b) THEN Head(a) < Head(b)
    ELSE Leq(Tail(a), Tail(b))

Lt(a, b) == a # b /\ Leq(a, b)

\* bitwise or of two bytes
RECURSIVE BitOr(_, _)
BitOr(a, b) ==
    IF a = 0 THEN b
    ELSE IF b = 0 THEN a
    ELSE 2 * BitOr(a \div 2, b \div 2) + (IF a % 2 = 1 \/ b % 2 = 1 THEN 1 ELSE 0)

Ok(v) == [tag |-> "Ok", val |-> <<v>>]

Err(t) == [tag |-> t, val |-> <<>>]

Abort == Err("Abort")

---------------------------------------------------------------------------
(* src/proto.rs: VarLen *)

V63 == U64(63)
V16383 == U64(16383)
V1073741823 == U64(1073741823)
V4611686018427387903 == <<63, 255, 255, 255, 255, 255, 255, 255>>

\* buf_len with the width boundaries off by one
buf_len_exclusive(v) ==
    IF Lt(v, V63) THEN 1
    ELSE IF Lt(v, V16383) THEN 2
    ELSE IF Lt(v, V1073741823) THEN 4
    ELSE IF Leq(v, V4611686018427387903) THEN 8
    ELSE 0

\* VarLen::buf_len; 0 stands for the panic "too large for variable-length encoding"
buf_len(v) ==
    IF Leq(v, V63) THEN 1
    ELSE IF Leq(v, V16383) THEN 2
    ELSE IF Leq(v, V1073741823) THEN 4
    ELSE IF Leq(v, V4611686018427387903) THEN 8
    ELSE 0

\* the low n bytes of v (v as u8, v as u16, v as u32, v), or-ed with a tag in the
\* two top bits of the first byte (| 16384, | 2_147_483_648, | 13_835_058_055_282_163_712)
Tagged(v, n, tag) ==
    LET low == Drop(v, 8 - n)
    IN  <<BitOr(low[1], tag)>> \o Tail(low)

\* VarLen::encode: the bytes appended to the buffer, or Abort
VarLen_encode(v) ==
    LET n == buf_len(v)
    IN  IF n = 0 THEN Abort
        ELSE IF n = 1 THEN Ok(Tagged(v, 1, 0))
        ELSE IF n = 2 THEN Ok(Tagged(v, 2, 64))
        ELSE IF n = 4 THEN Ok(Tagged(v, 4, 128))
        ELSE Ok(Tagged(v, 8, 192))

---------------------------------------------------------------------------
(* src/proto.rs: QuicCodec::decode *)

\* bytes_to_u64 / bytes_to_u32 keep the big-endian bytes of the slice
bytes_to_u64(b) == b

bytes_to_u32(b) == b

\* LongType::from_byte; "panic" for a byte outside the table
LongType_from_byte(v) ==
    IF v = 127 THEN "Initial"
    ELSE IF v = 126 THEN "Retry"
    ELSE IF v = 125 THEN "Handshake"
    ELSE IF v = 124 THEN "Protected"
    ELSE "panic"

\* NumberSize::from_byte; "panic" for a byte outside the table
NumberSize_from_byte(v) ==
    IF v = 0 THEN "One"
    ELSE IF v = 1 THEN "Two"
    ELSE IF v = 2 THEN "Four"
    ELSE "panic"

\* NumberSize::number_size
number_size(ns) == IF ns = "One" THEN 1 ELSE IF ns = "Two" THEN 2 ELSE 4

Packet(kind, ptype, nsize, cid, version, keyphase, number) ==
    [kind |-> kind, ptype |-> ptype, number_size |-> nsize, conn_id |-> cid,
     version |-> version, key_phase |-> keyphase, number |-> number]

decodeLong(buf) ==
    LET ptype == LongType_from_byte(buf[1] - 128)
    IN  IF ptype = "panic" THEN Abort
        ELSE IF Len(buf) < 17 THEN Abort
        ELSE Ok(Packet("Long", ptype, "none", <<bytes_to_u64(SubSeq(buf, 2, 9))>>,
                       <<bytes_to_u32(SubSeq(buf, 10, 13))>>, FALSE,
                       bytes_to_u32(SubSeq(buf, 14, 17))))

decodeShort(buf) ==
    LET first == buf[1]
        ns == NumberSize_from_byte(first % 8)
        hasCid == (first \div 64) % 2 = 1
        offset == IF hasCid THEN 5 ELSE 1
        size == number_size(ns)
    IN  IF ns = "panic" THEN Abort
        ELSE IF hasCid /\ Len(buf) < 9 THEN Abort
        ELSE IF Len(buf) < offset + size THEN Abort
        ELSE Ok(Packet("Short", "none", ns,
                       IF hasCid THEN <<bytes_to_u64(SubSeq(buf, 2, 9))>> ELSE <<>>,
                       <<>>, (first \div 32) % 2 = 1,
                       Rep(0, 4 - size) \o SubSeq(buf, offset + 1, offset + size)))

\* QuicCodec::decode: Ok(packet), or Abort where the code panics; it has no Err path
decode(buf) ==
    IF Len(buf) = 0 THEN Abort
    ELSE IF buf[1] >= 128 THEN decodeLong(buf)
    ELSE decodeShort(buf)

---------------------------------------------------------------------------
(* crate constants and coding helpers used by transport_parameters.rs *)

\* crate::VERSION, the 4-byte protocol version
VERSION == <<255, 0, 0, 11>>

MIN_CID_SIZE == 4

MAX_CID_SIZE == 18

RESET_TOKEN_SIZE == 16

\* varint::size: Some(1|2|4|8), or 0 for None (a value of 2^62 or more)
varint_size(v) ==
    IF Lt(v, U64(64)) THEN 1
    ELSE IF Lt(v, U64(16384)) THEN 2
    ELSE IF Lt(v, U64(1073741824)) THEN 4
    ELSE IF v[1] < 64 THEN 8
    ELSE 0

\* BufMutExt::write_var: the tagged big-endian encoding of a value below 2^62
write_var(v) ==
    LET n == varint_size(v)
        low == Drop(v, 8 - n)
        tag == IF n = 1 THEN 0 ELSE IF n = 2 THEN 64 ELSE IF n = 4 THEN 128 ELSE 192
    IN  <<low[1] + tag>> \o Tail(low)

\* BufExt::get_var: Ok([value, used]) or UnexpectedEnd
get_var(r) ==
    IF r = <<>> THEN Err("UnexpectedEnd")
    ELSE LET t == r[1] \div 64
             n == IF t = 0 THEN 1 ELSE IF t = 1 THEN 2 ELSE IF t = 2 THEN 4 ELSE 8
         IN  IF Len(r) < n THEN Err("UnexpectedEnd")
             ELSE Ok([value |-> Rep(0, 8 - n) \o <<r[1] % 64>> \o SubSeq(r, 2, n),
                      used |-> n])

---------------------------------------------------------------------------
(* quinn-proto/src/transport_parameters.rs: the record *)

\* apply_params!: name (id) = default
ParamTable ==
    << [name |-> "idle_timeout", code |-> 1, default |-> U64(0)],
       [name |-> "max_packet_size", code |-> 3, default |-> U64(65527)],
       [name |-> "initial_max_data", code |-> 4, default |-> U64(0)],
       [name |-> "initial_max_stream_data_bidi_local", code |-> 5, default |-> U64(0)],
       [name |-> "initial_max_stream_data_bidi_remote", code |-> 6, default |-> U64(0)],
       [name |-> "initial_max_stream_data_uni", code |-> 7, default |-> U64(0)],
       [name |-> "initial_max_streams_bidi", code |-> 8, default |-> U64(0)],
       [name |-> "initial_max_streams_uni", code |-> 9, default |-> U64(0)],
       [name |-> "ack_delay_exponent", code |-> 10, default |-> U64(3)],
       [name |-> "max_ack_delay", code |-> 11, default |-> U64(25)] >>

\* TransportParameters::default
Default ==
    [idle_timeout |-> U64(0),
     max_packet_size |-> U64(65527),
     initial_max_data |-> U64(0),
     initial_max_stream_data_bidi_local |-> U64(0),
     initial_max_stream_data_bidi_remote |-> U64(0),
     initial_max_stream_data_uni |-> U64(0),
     initial_max_streams_bidi |-> U64(0),
     initial_max_streams_uni |-> U64(0),
     ack_delay_exponent |-> U64(3),
     max_ack_delay |-> U64(25),
     disable_migration |-> FALSE,
     original_connection_id |-> <<>>,
     stateless_reset_token |-> <<>>,
     preferred_address |-> <<>>]

\* Side::is_server
is_server(s) == s = "Server"

---------------------------------------------------------------------------
(* PreferredAddress *)

UNSPECIFIED_V4 == Rep(0, 4)

UNSPECIFIED_V6 == Rep(0, 16)

\* PreferredAddress::wire_size
wire_size(x) == 4 + 2 + 16 + 2 + 1 + Len(x.connection_id) + 16

\* PreferredAddress::write
PreferredAddress_write(x) ==
    (IF x.address_v4 = <<>> THEN UNSPECIFIED_V4 ELSE x.address_v4[1].ip)
    \o U16Bytes(IF x.address_v4 = <<>> THEN 0 ELSE x.address_v4[1].port)
    \o (IF x.address_v6 = <<>> THEN UNSPECIFIED_V6 ELSE x.address_v6[1].ip)
    \o U16Bytes(IF x.address_v6 = <<>> THEN 0 ELSE x.address_v6[1].port)
    \o <<Len(x.connection_id) % 256>>
    \o x.connection_id
    \o x.stateless_reset_token

\* the structural error in place of the one for a missing address
NoAddressError_Malformed == Err("Malformed")

\* the error PreferredAddress::read returns when no address family is present
NoAddressError == Err("IllegalValue")

\* PreferredAddress::read on a reader holding the bytes r: [res, used], used being
\* the number of bytes taken from the reader when res is Ok
PreferredAddress_read(r) ==
    IF Len(r) < 25 THEN [res |-> Err("Malformed"), used |-> 0]
    ELSE
    LET ip_v4 == SubSeq(r, 1, 4)
        port_v4 == U16Of(SubSeq(r, 5, 6))
        ip_v6 == SubSeq(r, 7, 22)
        port_v6 == U16Of(SubSeq(r, 23, 24))
        cid_len == r[25]
        rest == Drop(r, 25)
        address_v4 == IF ip_v4 = UNSPECIFIED_V4 /\ port_v4 = 0 THEN <<>>
                      ELSE <<[ip |-> ip_v4, port |-> port_v4]>>
        address_v6 == IF ip_v6 = UNSPECIFIED_V6 /\ port_v6 = 0 THEN <<>>
                      ELSE <<[ip |-> ip_v6, port |-> port_v6, flowinfo |-> 0, scope_id |-> 0]>>
    IN  IF \/ Len(rest) < cid_len
           \/ (cid_len # 0 /\ (cid_len < MIN_CID_SIZE \/ cid_len > MAX_CID_SIZE))
        THEN [res |-> Err("Malformed"), used |-> 0]
        ELSE IF Len(rest) - cid_len < 16 THEN [res |-> Err("Malformed"), used |-> 0]
        ELSE IF address_v4 = <<>> /\ address_v6 = <<>> THEN [res |-> NoAddressError, used |-> 0]
        ELSE [res |-> Ok([address_v4 |-> address_v4,
                          address_v6 |-> address_v6,
                          connection_id |-> Take(rest, cid_len),
                          stateless_reset_token |->
                              SubSeq(rest, cid_len + 1, cid_len + RESET_TOKEN_SIZE)]),
              used |-> 25 + cid_len + RESET_TOKEN_SIZE]

---------------------------------------------------------------------------
(* TransportParameters::write *)

\* one TLV entry: {2-byte code}{2-byte length}{value}
Entry(code, value) == U16Bytes(code) \o U16Bytes(Len(value) % 65536) \o value

\* the preamble write emits for a side
Preamble(s) ==
    IF is_server(s) THEN VERSION \o <<8>> \o <<10, 26, 42, 58>> \o VERSION
    ELSE VERSION

\* write_params!: an entry for each integer parameter that differs from its default
IntEntries(p) ==
    LET e(i) == IF p[ParamTable[i].name] # ParamTable[i].default
                THEN <<Entry(ParamTable[i].code, write_var(p[ParamTable[i].name]))>>
                ELSE <<>>
    IN  e(1) \o e(2) \o e(3) \o e(4) \o e(5) \o e(6) \o e(7) \o e(8) \o e(9) \o e(10)

\* the entries of the TLV block, in the order write emits them
WriteEntries(p) ==
    IntEntries(p)
    \o (IF p.original_connection_id # <<>>
        THEN <<Entry(0, p.original_connection_id[1])>> ELSE <<>>)
    \o (IF p.stateless_reset_token # <<>>
        THEN <<Entry(2, p.stateless_reset_token[1])>> ELSE <<>>)
    \o (IF p.disable_migration THEN <<Entry(12, <<>>)>> ELSE <<>>)
    \o (IF p.preferred_address # <<>>
        THEN <<U16Bytes(13) \o U16Bytes(wire_size(p.preferred_address[1]))
                \o PreferredAddress_write(p.preferred_address[1])>>
        ELSE <<>>)

\* preamble, 2-byte length of the block, block
Frame(pr, entries) ==
    pr \o U16Bytes(Len(Flatten(entries)) % 65536) \o Flatten(entries)

\* TransportParameters::write: Ok(bytes), or Abort on "value too large"
TP_write(s, p) ==
    IF \E i \in 1..Len(ParamTable) :
          /\ p[ParamTable[i].name] # ParamTable[i].default
          /\ varint_size(p[ParamTable[i].name]) = 0
    THEN Abort
    ELSE Ok(Frame(Preamble(s), WriteEntries(p)))

---------------------------------------------------------------------------
(* TransportParameters::read *)

\* the supported-version list of server data holds the negotiated version
\* (the loop over supported_bytes / 4 entries)
VersionFound(r, supported_bytes, negotiated) ==
    \E i \in 0..(supported_bytes \div 4 - 1) : SubSeq(r, 6 + 4 * i, 9 + 4 * i) = negotiated

\* the preamble of client data, parsed by a server: no validation of the version
ServerPreamble(r) ==
    IF Len(r) < 26 THEN [res |-> Err("Malformed"), rest |-> <<>>]
    ELSE [res |-> Ok("preamble"), rest |-> Drop(r, 4)]

\* the client-side preamble without the search of the supported-version list
ClientPreamble_NoSearch(r) ==
    IF Len(r) < 31 THEN [res |-> Err("Malformed"), rest |-> <<>>]
    ELSE
    LET negotiated == Take(r, 4)
        supported_bytes == r[5]
    IN  IF negotiated # VERSION THEN [res |-> Err("VersionNegotiation"), rest |-> <<>>]
        ELSE IF supported_bytes < 4 \/ supported_bytes > 252 \/ supported_bytes % 4 # 0
        THEN [res |-> Err("Malformed"), rest |-> <<>>]
        ELSE IF Len(r) < 5 + supported_bytes THEN [res |-> Abort, rest |-> <<>>]
        ELSE [res |-> Ok("preamble"), rest |-> Drop(r, 5 + supported_bytes)]

\* the preamble of server data, parsed by a client
ClientPreamble(r) ==
    IF Len(r) < 31 THEN [res |-> Err("Malformed"), rest |-> <<>>]
    ELSE
    LET negotiated == Take(r, 4)
        supported_bytes == r[5]
    IN  IF negotiated # VERSION THEN [res |-> Err("VersionNegotiation"), rest |-> <<>>]
        ELSE IF supported_bytes < 4 \/ supported_bytes > 252 \/ supported_bytes % 4 # 0
        THEN [res |-> Err("Malformed"), rest |-> <<>>]
        ELSE IF Len(r) < 5 + supported_bytes THEN [res |-> Abort, rest |-> <<>>]
        ELSE IF ~VersionFound(r, supported_bytes, negotiated)
        THEN [res |-> Err("VersionNegotiation"), rest |-> <<>>]
        ELSE [res |-> Ok("preamble"), rest |-> Drop(r, 5 + supported_bytes)]

\* lines 230-255: the role-dependent preamble
ReadPreamble(s, r) == IF is_server(s) THEN ServerPreamble(r) ELSE ClientPreamble(r)

\* lines 260-263: the 2-byte total length, which must equal what remains
ReadLength(r) ==
    IF Len(r) < 2 THEN [res |-> Abort, rest |-> <<>>]
    ELSE IF U16Of(r) # Len(r) - 2 THEN [res |-> Err("Malformed"), rest |-> <<>>]
    ELSE [res |-> Ok("length"), rest |-> Drop(r, 2)]

\* the checks after the loop without the role condition
FinalCheck_AnyRole(s, p) ==
    IF \/ Lt(U64(20), p.ack_delay_exponent)
       \/ Leq(U64(16384), p.max_ack_delay)
    THEN Err("IllegalValue")
    ELSE Ok(p)

\* lines 341-349: the checks after the loop
FinalCheck(s, p) ==
    IF \/ Lt(U64(20), p.ack_delay_exponent)
       \/ Leq(U64(16384), p.max_ack_delay)
       \/ (is_server(s) /\ (p.stateless_reset_token # <<>> \/ p.preferred_address # <<>>))
    THEN Err("IllegalValue")
    ELSE Ok(p)

\* the index in ParamTable of an integer parameter's code, 0 for any other code
IntIndex(id) ==
    IF \E i \in 1..Len(ParamTable) : ParamTable[i].code = id
    THEN CHOOSE i \in 1..Len(ParamTable) : ParamTable[i].code = id
    ELSE 0

\* the bytes the reader advances past a preferred address read from r.take(len)
PreferredAddressAdvance(len, used) == used

\* the outcome of one loop iteration on entry (id, len) with body the bytes after
\* its 4-byte header: [res, p, got, adv]; adv is the number of body bytes consumed
OriginalConnectionId(len, body, p, got) ==
    IF len < MIN_CID_SIZE \/ len > MAX_CID_SIZE \/ p.original_connection_id # <<>>
    THEN [res |-> Err("Malformed"), p |-> p, got |-> got, adv |-> 0]
    ELSE [res |-> Ok("entry"), p |-> [p EXCEPT !.original_connection_id = <<Take(body, len)>>],
          got |-> got, adv |-> len]

StatelessResetToken(len, body, p, got) ==
    IF len # 16 \/ p.stateless_reset_token # <<>>
    THEN [res |-> Err("Malformed"), p |-> p, got |-> got, adv |-> 0]
    ELSE [res |-> Ok("entry"),
          p |-> [p EXCEPT !.stateless_reset_token = <<Take(body, RESET_TOKEN_SIZE)>>],
          got |-> got, adv |-> RESET_TOKEN_SIZE]

DisableMigration(len, body, p, got) ==
    IF len # 0 \/ p.disable_migration
    THEN [res |-> Err("Malformed"), p |-> p, got |-> got, adv |-> 0]
    ELSE [res |-> Ok("entry"), p |-> [p EXCEPT !.disable_migration = TRUE],
          got |-> got, adv |-> 0]

PreferredAddressEntry(len, body, p, got) ==
    IF p.preferred_address # <<>>
    THEN [res |-> Err("Malformed"), p |-> p, got |-> got, adv |-> 0]
    ELSE LET pa == PreferredAddress_read(Take(body, len))
         IN  IF pa.res.tag # "Ok" THEN [res |-> pa.res, p |-> p, got |-> got, adv |-> 0]
             ELSE [res |-> Ok("entry"),
                   p |-> [p EXCEPT !.preferred_address = <<pa.res.val[1]>>],
                   got |-> got, adv |-> PreferredAddressAdvance(len, pa.used)]

\* parse!: an integer parameter; the value is read by get_var from the reader itself
IntParam(i, len, body, p, got) ==
    LET gv == get_var(body)
        name == ParamTable[i].name
    IN  IF gv.tag # "Ok" THEN [res |-> Err("Malformed"), p |-> p, got |-> got, adv |-> 0]
        ELSE IF len # varint_size(gv.val[1].value) \/ name \in got
        THEN [res |-> Err("Malformed"), p |-> p, got |-> got, adv |-> 0]
        ELSE [res |-> Ok("entry"), p |-> [p EXCEPT ![name] = gv.val[1].value],
              got |-> got \cup {name}, adv |-> gv.val[1].used]

\* an unrecognized code: r.advance(len)
UnknownEntry(len, body, p, got) ==
    [res |-> Ok("entry"), p |-> p, got |-> got, adv |-> len]

\* lines 289-338: the match on the entry's code
ReadEntry(id, len, body, p, got) ==
    IF id = 0 THEN OriginalConnectionId(len, body, p, got)
    ELSE IF id = 2 THEN StatelessResetToken(len, body, p, got)
    ELSE IF id = 12 THEN DisableMigration(len, body, p, got)
    ELSE IF id = 13 THEN PreferredAddressEntry(len, body, p, got)
    ELSE IF IntIndex(id) # 0 THEN IntParam(IntIndex(id), len, body, p, got)
    ELSE UnknownEntry(len, body, p, got)

\* lines 279-349: the loop over the TLV block r, then the final checks
RECURSIVE ReadLoop(_, _, _, _)
ReadLoop(s, r, p, got) ==
    IF r = <<>> THEN FinalCheck(s, p)
    ELSE IF Len(r) < 4 THEN Err("Malformed")
    ELSE
    LET id == U16Of(SubSeq(r, 1, 2))
        len == U16Of(SubSeq(r, 3, 4))
        body == Drop(r, 4)
    IN  IF Len(body) < len THEN Err("Malformed")
        ELSE LET e == ReadEntry(id, len, body, p, got)
             IN  IF e.res.tag # "Ok" THEN e.res
                 ELSE ReadLoop(s, Drop(body, e.adv), e.p, e.got)

\* TransportParameters::read
TP_read(s, r) ==
    LET a == ReadPreamble(s, r)
    IN  IF a.res.tag # "Ok" THEN a.res
        ELSE LET b == ReadLength(a.rest)
             IN  IF b.res.tag # "Ok" THEN b.res
                 ELSE ReadLoop(s, b.rest, Default, {})

---------------------------------------------------------------------------
(* Inputs *)

\* the number of TLV entries a forged block holds
MaxEntries == 3

\* the number of bytes that follow the lead byte of a datagram
MaxDecodeLen == 17

Sides == {"Server", "Client"}

Opposite(s) == IF s = "Server" THEN "Client" ELSE "Server"

V4611686018427387904 == <<64, 0, 0, 0, 0, 0, 0, 0>>

\* integer values written: the boundaries of the four widths, and 2^62
Boundary ==
    {U64(0), V63, U64(64), V16383, U64(16384), V1073741823, U64(1073741824),
     V4611686018427387903, V4611686018427387904}

\* the preferred address of test::coding
CodingAddress ==
    [address_v4 |-> <<[ip |-> <<127, 0, 0, 1>>, port |-> 42]>>,
     address_v6 |-> <<>>,
     connection_id |-> <<>>,
     stateless_reset_token |-> Rep(171, 16)]

Ipv6Address ==
    [address_v4 |-> <<>>,
     address_v6 |-> <<[ip |-> Rep(0, 15) \o <<1>>, port |-> 443, flowinfo |-> 0, scope_id |-> 0]>>,
     connection_id |-> <<1, 2, 3, 4>>,
     stateless_reset_token |-> Rep(7, 16)]

NoAddress ==
    [address_v4 |-> <<>>,
     address_v6 |-> <<>>,
     connection_id |-> <<>>,
     stateless_reset_token |-> Rep(171, 16)]

\* the record of test::coding
CodingParams ==
    [Default EXCEPT !.initial_max_streams_bidi = U64(16),
                    !.initial_max_streams_uni = U64(16),
                    !.ack_delay_exponent = U64(2),
                    !.max_packet_size = U64(1200),
                    !.preferred_address = <<CodingAddress>>]

PickedFields ==
    {"idle_timeout", "max_packet_size", "initial_max_data", "initial_max_streams_bidi",
     "ack_delay_exponent", "max_ack_delay"}

\* records handed to write: one integer field at a boundary value, every
\* combination of the optional fields
ParamSet ==
    {CodingParams} \cup
    { [Default EXCEPT ![f] = v,
                      !.original_connection_id = c,
                      !.stateless_reset_token = t,
                      !.disable_migration = d,
                      !.preferred_address = a] :
        f \in PickedFields, v \in Boundary,
        c \in {<<>>, << <<>> >>, << <<1, 2, 3, 4>> >>},
        t \in {<<>>, <<Rep(171, 16)>>},
        d \in BOOLEAN,
        a \in {<<>>, <<CodingAddress>>, <<Ipv6Address>>} }

IdleEntry == Entry(1, write_var(U64(5)))
CidEntry == Entry(0, <<1, 2, 3, 4>>)
TokenEntry == Entry(2, Rep(171, 16))
MigrationEntry == Entry(12, <<>>)
AddressEntry == Entry(13, PreferredAddress_write(CodingAddress))
NoAddressEntry == Entry(13, PreferredAddress_write(NoAddress))
\* a preferred address whose declared length exceeds its substructure by 4 bytes,
\* which read as the header of an entry with code 0xff00 and length 5
SurplusEntry == Entry(13, PreferredAddress_write(CodingAddress) \o <<255, 0, 0, 5>>)
FillerEntry == Entry(65281, Rep(0, 16))
EmptyCidEntry == Entry(0, <<>>)
\* ack_delay_exponent = 21
ExponentEntry == Entry(10, write_var(U64(21)))
\* idle_timeout under a declared length of 1 whose value byte opens a 2-byte encoding
OverlongEntry == U16Bytes(1) \o U16Bytes(1) \o <<64>>

EntryMenu ==
    {IdleEntry, CidEntry, TokenEntry, MigrationEntry, AddressEntry, NoAddressEntry,
     SurplusEntry, FillerEntry, EmptyCidEntry, ExponentEntry, OverlongEntry}

FramingEntryMenu == {IdleEntry, FillerEntry}

\* entries with codes no reader knows, of several lengths
UnknownMenu == {Entry(14, <<>>), Entry(65280, <<170, 187, 204>>), Entry(4660, Rep(1, 20))}

OtherVersion == <<255, 0, 0, 10>>

ReservedVersion == <<10, 26, 42, 58>>

\* preambles of honest peers
HonestPreambles == {Preamble("Client"), Preamble("Server")}

\* preambles a peer may send
PreambleMenu ==
    { <<>>,
      Preamble("Client"),
      OtherVersion,
      Preamble("Server"),
      VERSION \o <<8>> \o ReservedVersion \o OtherVersion,
      OtherVersion \o <<8>> \o ReservedVersion \o VERSION,
      VERSION \o <<6>> \o ReservedVersion \o <<255, 0>>,
      VERSION \o <<252>> \o ReservedVersion \o VERSION,
      VERSION \o <<28>> \o Flatten([i \in 1..6 |-> ReservedVersion]) \o VERSION }

FramingModes == {"exact", "trailing", "cut1", "cut2"}

\* the bytes on the wire for a framing mode
Framed(pr, entries, mode) ==
    LET f == Frame(pr, entries)
    IN  IF mode = "exact" THEN f
        ELSE IF mode = "trailing" THEN f \o <<0>>
        ELSE IF mode = "cut1" THEN Take(f, Len(f) - 1)
        ELSE IF Len(f) >= 2 THEN Take(f, Len(f) - 2) ELSE <<>>

InsertAt(s, i, e) == Take(s, i) \o <<e>> \o Drop(s, i)

---------------------------------------------------------------------------
(* The transport-parameter exchange: a message is written by this code or
   forged by a peer, then read *)

Idle ==
    /\ pc = "compose" /\ writer = "none" /\ side = "none" /\ params = <<>>
    /\ pre = <<>> /\ msg = <<>> /\ wire = <<>> /\ base = <<>> /\ result = Err("none")
    /\ val = U64(0) /\ vout = Err("none") /\ dbuf = <<>> /\ packet = Err("none")
    /\ sub = <<>> /\ paout = [res |-> Err("none"), used |-> 0]

Init == Idle

\* TransportParameters::write(s) of record p into an empty buffer
Write(s, p) ==
    /\ pc = "compose" /\ msg = <<>>
    /\ LET w == TP_write(s, p)
       IN  IF w.tag = "Ok"
           THEN /\ wire' = w.val[1]
                /\ msg' = WriteEntries(p)
                /\ pre' = Preamble(s)
                /\ result' = result
                /\ pc' = "sent"
           ELSE /\ result' = w
                /\ pc' = "aborted"
                /\ UNCHANGED <<wire, msg, pre>>
    /\ writer' = s
    /\ params' = <<p>>
    /\ UNCHANGED <<side, base, val, vout, dbuf, packet, sub, paout>>

\* a peer appends a TLV entry to the block it composes
ForgeEntry(menu) ==
    /\ pc = "compose" /\ Len(msg) < MaxEntries
    /\ \E e \in menu : msg' = Append(msg, e)
    /\ UNCHANGED <<pc, writer, side, params, pre, wire, base, result,
                   val, vout, dbuf, packet, sub, paout>>

\* a peer sends its block behind a preamble and the length prefix
ForgeSend(preambles, modes) ==
    /\ pc = "compose"
    /\ \E pr \in preambles, mode \in modes :
          /\ pre' = pr
          /\ wire' = Framed(pr, msg, mode)
    /\ writer' = "Peer"
    /\ pc' = "sent"
    /\ UNCHANGED <<side, params, msg, base, result, val, vout, dbuf, packet, sub, paout>>

\* an entry with an unknown code is inserted at a boundary between entries
InsertUnknown ==
    /\ pc = "sent" /\ base = <<>>
    /\ \E i \in 0..Len(msg), u \in UnknownMenu :
          /\ msg' = InsertAt(msg, i, u)
          /\ wire' = Frame(pre, InsertAt(msg, i, u))
    /\ base' = <<wire>>
    /\ UNCHANGED <<pc, writer, side, params, pre, result, val, vout, dbuf, packet, sub, paout>>

\* TransportParameters::read(s) on the bytes received
Read(s) ==
    /\ pc = "sent"
    /\ side' = s
    /\ result' = TP_read(s, wire)
    /\ pc' = "done"
    /\ UNCHANGED <<writer, params, pre, msg, wire, base, val, vout, dbuf, packet, sub, paout>>

Next ==
    \/ \E s \in Sides, p \in ParamSet : Write(s, p)
    \/ ForgeEntry(EntryMenu)
    \/ ForgeSend(HonestPreambles, {"exact"})
    \/ \E s \in Sides : Read(s)

Spec == Init /\ [][Next]_vars

NextFraming ==
    \/ ForgeEntry(FramingEntryMenu)
    \/ ForgeSend(PreambleMenu, FramingModes)
    \/ \E s \in Sides : Read(s)

SpecFraming == Init /\ [][NextFraming]_vars

NextInsert ==
    \/ ForgeEntry(EntryMenu)
    \/ ForgeSend(HonestPreambles, {"exact"})
    \/ InsertUnknown
    \/ \E s \in Sides : Read(s)

SpecInsert == Init /\ [][NextInsert]_vars

---------------------------------------------------------------------------
(* VarLen::encode applied to a value *)

LeadBytes == {0, 1, 37, 63, 64, 127, 128, 255}

FillBytes == {0, 90, 255}

\* values with k significant bytes, and the values of the tests of src/proto.rs
ValSet ==
    { Rep(0, 8 - k) \o <<l>> \o Rep(f, k - 1) : k \in 1..8, l \in LeadBytes, f \in FillBytes }
    \cup { <<2, 25, 124, 94, 255, 20, 232, 140>>, U64(494878333), U64(15293), U64(37) }

InitVarLen ==
    /\ pc = "compose" /\ writer = "none" /\ side = "none" /\ params = <<>>
    /\ pre = <<>> /\ msg = <<>> /\ wire = <<>> /\ base = <<>> /\ result = Err("none")
    /\ val \in ValSet /\ vout = Err("none") /\ dbuf = <<>> /\ packet = Err("none")
    /\ sub = <<>> /\ paout = [res |-> Err("none"), used |-> 0]

\* VarLen::new(val).encode(&mut buf) on an empty buffer
Encode ==
    /\ pc = "compose"
    /\ vout' = VarLen_encode(val)
    /\ pc' = "done"
    /\ UNCHANGED <<writer, side, params, pre, msg, wire, base, result, val, dbuf, packet,
                   sub, paout>>

SpecVarLen == InitVarLen /\ [][Encode]_vars

---------------------------------------------------------------------------
(* QuicCodec::decode applied to a datagram *)

HeaderLeads == {255, 254, 253, 252, 251, 128, 0, 1, 2, 3, 7, 32, 64, 65, 66, 98}

\* n bytes that follow the lead byte
Body(n) == [i \in 1..n |-> (i * 37 + 11) % 256]

Datagrams == {<<>>} \cup { <<l>> \o Body(n) : l \in HeaderLeads, n \in 0..MaxDecodeLen }

InitDecode ==
    /\ pc = "compose" /\ writer = "none" /\ side = "none" /\ params = <<>>
    /\ pre = <<>> /\ msg = <<>> /\ wire = <<>> /\ base = <<>> /\ result = Err("none")
    /\ val = U64(0) /\ vout = Err("none") /\ dbuf \in Datagrams /\ packet = Err("none")
    /\ sub = <<>> /\ paout = [res |-> Err("none"), used |-> 0]

\* QuicCodec::decode(&mut buf)
Decode ==
    /\ pc = "compose"
    /\ packet' = decode(dbuf)
    /\ pc' = "done"
    /\ UNCHANGED <<writer, side, params, pre, msg, wire, base, result, val, vout, dbuf,
                   sub, paout>>

SpecDecode == InitDecode /\ [][Decode]_vars

---------------------------------------------------------------------------
(* PreferredAddress::read applied to a substructure, alone and as the value of
   a 0x000d entry *)

\* address and port fields: all zero, or set
V4Fields == {Rep(0, 6), <<127, 0, 0, 1, 0, 42>>, <<0, 0, 0, 0, 0, 1>>}

V6Fields == {Rep(0, 18), Rep(0, 15) \o <<1, 1, 187>>}

CidLengths == {0, 2, 4, 18, 19}

Tokens == {Rep(171, 16), Rep(0, 16), Rep(171, 15)}

\* substructures: every address combination, connection-id length and token; the
\* connection id complete or one byte short
Substructures ==
    { a \o b \o <<n>> \o Rep(9, m) \o t :
        a \in V4Fields, b \in V6Fields, n \in CidLengths, m \in CidLengths \cup {1, 3, 17}, t \in Tokens }

InitAddress ==
    /\ pc = "compose" /\ writer = "none" /\ side = "none" /\ params = <<>>
    /\ pre = <<>> /\ msg = <<>> /\ wire = <<>> /\ base = <<>> /\ result = Err("none")
    /\ val = U64(0) /\ vout = Err("none") /\ dbuf = <<>> /\ packet = Err("none")
    /\ sub \in Substructures /\ paout = [res |-> Err("none"), used |-> 0]

\* PreferredAddress::read on the substructure
ReadAddress ==
    /\ pc = "compose"
    /\ paout' = PreferredAddress_read(sub)
    /\ pc' = "address"
    /\ UNCHANGED <<writer, side, params, pre, msg, wire, base, result, val, vout, dbuf,
                   packet, sub>>

\* TransportParameters::read(s) on a block whose only entry is 0x000d with the
\* substructure as its value
ReadAddressEntry(s) ==
    /\ pc = "address"
    /\ pre' = Preamble(Opposite(s))
    /\ msg' = <<Entry(13, sub)>>
    /\ wire' = Frame(Preamble(Opposite(s)), <<Entry(13, sub)>>)
    /\ side' = s
    /\ result' = TP_read(s, Frame(Preamble(Opposite(s)), <<Entry(13, sub)>>))
    /\ pc' = "done"
    /\ UNCHANGED <<writer, params, base, val, vout, dbuf, packet, sub, paout>>

NextAddress == ReadAddress \/ \E s \in Sides : ReadAddressEntry(s)

SpecAddress == InitAddress /\ [][NextAddress]_vars

---------------------------------------------------------------------------
(* Properties *)

Range(s) == {s[i] : i \in 1..Len(s)}

\* the code and declared length of a TLV entry
CodeOf(e) == U16Of(SubSeq(e, 1, 2))

LenOf(e) == U16Of(SubSeq(e, 3, 4))

RecoverableErrors == {"VersionNegotiation", "IllegalValue", "Malformed"}

Below2p62(p) == \A i \in 1..Len(ParamTable) : p[ParamTable[i].name][1] < 64

\* the message passes the preamble and total-length checks of the reading side
PassesFraming(s, w) ==
    /\ ReadPreamble(s, w).res.tag = "Ok"
    /\ ReadLength(ReadPreamble(s, w).rest).res.tag = "Ok"

\* C1: a record with integer fields below 2^62, written for one role and read for
\* the opposite role, is returned unchanged
C1_RoundTrip ==
    (pc = "done" /\ writer \in Sides /\ side = Opposite(writer) /\ Below2p62(params[1]))
        => result = Ok(params[1])

\* C2: read ends with a record or one of the three errors, and never aborts
C2_ReadNeverAborts ==
    pc = "done" /\ sub = <<>> => result.tag \in {"Ok"} \cup RecoverableErrors

\* a long-header lead byte outside the type table, a short-header lead byte outside
\* the width table, or fewer bytes than the header announces
BadDatagram(b) ==
    \/ b = <<>>
    \/ b[1] >= 128 /\ (b[1] - 128 \notin {127, 126, 125, 124} \/ Len(b) < 17)
    \/ b[1] < 128 /\ b[1] % 8 \notin {0, 1, 2}
    \/ b[1] < 128 /\ b[1] % 8 \in {0, 1, 2}
         /\ Len(b) < (IF (b[1] \div 64) % 2 = 1 THEN 9 ELSE 1) + number_size(NumberSize_from_byte(b[1] % 8))

\* C3: decode returns a packet or a recoverable decode error; a lead byte outside
\* the tables and a buffer shorter than its header yield the error, never an abort
C3_DecodeRecoverable ==
    pc = "done" /\ dbuf \in Datagrams /\ packet.tag # "none"
        => /\ packet.tag \in {"Ok", "PacketDecodeError"}
           /\ BadDatagram(dbuf) => packet.tag = "PacketDecodeError"

\* the supported-version list announced by server data lies within the buffer and
\* holds VERSION
ListHoldsVersion(w) ==
    /\ Len(w) >= 5 + w[5]
    /\ VERSION \in { SubSeq(w, 6 + 4 * i, 9 + 4 * i) : i \in 0..(w[5] \div 4 - 1) }

ListWellFormed(w) == w[5] \in 4..252 /\ w[5] % 4 = 0 /\ Len(w) >= 5 + w[5]

\* C4 (as stated): when the preamble does not carry VERSION read fails with
\* VersionNegotiation, for a server reading client data whose version differs from
\* VERSION and for a client reading server data whose list lacks VERSION.  Stated
\* for messages that read to a record once the version is put right.
C4_VersionMismatchRejected ==
    /\ (pc = "done" /\ sub = <<>> /\ side = "Server" /\ Len(wire) >= 4
          /\ Take(wire, 4) # VERSION
          /\ TP_read("Server", VERSION \o Drop(wire, 4)).tag = "Ok")
        => result = Err("VersionNegotiation")
    /\ (pc = "done" /\ sub = <<>> /\ side = "Client" /\ Len(wire) >= 31
          /\ Take(wire, 4) = VERSION /\ ListWellFormed(wire) /\ ~ListHoldsVersion(wire))
        => result = Err("VersionNegotiation")

\* C4 (amended): a client reading server data of at least 31 bytes returns
\* VersionNegotiation when the negotiated version differs from VERSION, or when the
\* well-formed supported-version list within the buffer lacks VERSION, and returns
\* no record unless the preamble carries VERSION; a server reading client data
\* never returns VersionNegotiation and its result does not depend on the 4 version
\* bytes
C4_VersionChecked ==
    pc = "done" /\ sub = <<>> =>
        /\ (side = "Client" /\ Len(wire) >= 31 /\ Take(wire, 4) # VERSION)
             => result = Err("VersionNegotiation")
        /\ (side = "Client" /\ Len(wire) >= 31 /\ Take(wire, 4) = VERSION
              /\ ListWellFormed(wire) /\ ~ListHoldsVersion(wire))
             => result = Err("VersionNegotiation")
        /\ (side = "Client" /\ ~(Len(wire) >= 5 /\ Take(wire, 4) = VERSION /\ ListHoldsVersion(wire)))
             => result.tag # "Ok"
        /\ side = "Server"
             => /\ result.tag # "VersionNegotiation"
                /\ Len(wire) >= 4 => result = TP_read("Server", VERSION \o Drop(wire, 4))

\* a client has read server data whose well-formed list lacks VERSION
C4_Witness ==
    /\ pc = "done" /\ side = "Client" /\ Len(wire) >= 31 /\ Take(wire, 4) = VERSION
    /\ ListWellFormed(wire) /\ ~ListHoldsVersion(wire)
    /\ result = Err("VersionNegotiation")

\* a stateless-reset-token or preferred-address entry as write emits it
ServerOnlyEntry(e) ==
    \/ CodeOf(e) = 2 /\ LenOf(e) = 16 /\ Len(e) = 20
    \/ /\ CodeOf(e) = 13 /\ Len(e) >= 29 /\ Len(e) = 4 + LenOf(e)
       /\ LenOf(e) = 41 + e[29]
       /\ (e[29] = 0 \/ e[29] \in MIN_CID_SIZE..MAX_CID_SIZE)

NotServerOnly(e) == ~ServerOnlyEntry(e)

\* C5: a record returned by a server (reading client data) has no stateless reset
\* token and no preferred address; client data that is valid but for holding one
\* token entry, one preferred-address entry or both is rejected with IllegalValue
C5_ServerOnlyFields ==
    pc = "done" /\ side = "Server" /\ sub = <<>> =>
        /\ result.tag = "Ok"
             => /\ result.val[1].stateless_reset_token = <<>>
                /\ result.val[1].preferred_address = <<>>
        /\ ( /\ wire = Frame(pre, msg)
             /\ \E i \in 1..Len(msg) : ServerOnlyEntry(msg[i])
             /\ \A i, j \in 1..Len(msg) :
                   (i # j /\ ServerOnlyEntry(msg[i]) /\ ServerOnlyEntry(msg[j]))
                       => CodeOf(msg[i]) # CodeOf(msg[j])
             /\ TP_read("Server", Frame(pre, SelectSeq(msg, NotServerOnly))).tag = "Ok" )
             => result = Err("IllegalValue")

\* a server has rejected client data that holds a token entry and is valid without it
C5_Witness ==
    /\ pc = "done" /\ side = "Server" /\ wire = Frame(pre, msg)
    /\ TokenEntry \in Range(msg)
    /\ TP_read("Server", Frame(pre, SelectSeq(msg, NotServerOnly))).tag = "Ok"
    /\ result = Err("IllegalValue")

\* a client has read server data into a record holding a token and a preferred address
C5_ClientAccepts ==
    /\ pc = "done" /\ side = "Client" /\ result.tag = "Ok"
    /\ result.val[1].stateless_reset_token # <<>>
    /\ result.val[1].preferred_address # <<>>

\* the entry is accepted when read on its own
AcceptedAlone(e) ==
    /\ Len(e) = 4 + LenOf(e)
    /\ ReadEntry(CodeOf(e), LenOf(e), Drop(e, 4), Default, {}).res.tag = "Ok"

KnownCodes == {0, 2, 12, 13} \cup {ParamTable[i].code : i \in 1..Len(ParamTable)}

\* C6: a block that passes the preamble and total-length checks, whose entries are
\* each accepted on their own, and in which a known code occurs twice, is rejected
\* with Malformed
C6_DuplicateRejected ==
    ( /\ pc = "done" /\ sub = <<>> /\ wire = Frame(pre, msg)
      /\ PassesFraming(side, wire)
      /\ \A i \in 1..Len(msg) : AcceptedAlone(msg[i])
      /\ \E i, j \in 1..Len(msg) :
            i < j /\ CodeOf(msg[i]) = CodeOf(msg[j]) /\ CodeOf(msg[i]) \in KnownCodes )
        => result = Err("Malformed")

\* C7: when read succeeds on a message, it succeeds with the same record on the
\* message with one unknown entry inserted at a boundary between entries
C7_UnknownTolerated ==
    (pc = "done" /\ base # <<>> /\ TP_read(side, base[1]).tag = "Ok")
        => result = TP_read(side, base[1])

\* C8: a message holding the entry of code 0x0000 with length 0, and read to a
\* record without it, is read to that record with original_connection_id =
\* Some(empty)
C8_EmptyCidAccepted ==
    LET without == Frame(pre, SelectSeq(msg, LAMBDA e : e # EmptyCidEntry))
        r == TP_read(side, without)
    IN  ( /\ pc = "done" /\ sub = <<>> /\ wire = Frame(pre, msg)
          /\ Cardinality({i \in 1..Len(msg) : CodeOf(msg[i]) = 0}) = 1
          /\ EmptyCidEntry \in Range(msg)
          /\ r.tag = "Ok" /\ r.val[1].original_connection_id = <<>> )
            => result = Ok([r.val[1] EXCEPT !.original_connection_id = << <<>> >>])

\* v fits the payload of an n-byte encoding (6, 14, 30, 62 bits)
FitsIn(v, n) == Take(v, 8 - n) = Rep(0, 8 - n) /\ v[8 - n + 1] < 64

SmallestWidth(v) ==
    CHOOSE n \in {1, 2, 4, 8} : FitsIn(v, n) /\ \A m \in {1, 2, 4, 8} : m < n => ~FitsIn(v, m)

WidthTag(n) == IF n = 1 THEN 0 ELSE IF n = 2 THEN 1 ELSE IF n = 4 THEN 2 ELSE 3

\* C9: for a value below 2^62 encode writes buf_len bytes, the smallest width that
\* holds the value; the two top bits of the first byte are the width tag and the
\* other bits, big-endian, the value; decoding by tag gives the value and the count
C9_VarLenEncoding ==
    pc = "done" /\ vout.tag # "none" /\ val[1] < 64 =>
        /\ vout.tag = "Ok"
        /\ LET b == vout.val[1]
               n == Len(b)
           IN  /\ n = buf_len(val)
               /\ n = SmallestWidth(val)
               /\ b[1] \div 64 = WidthTag(n)
               /\ Rep(0, 8 - n) \o <<b[1] % 64>> \o Tail(b) = val
               /\ get_var(b) = Ok([value |-> val, used |-> n])
               /\ val \in {V63} => n = 1
               /\ val \in {U64(64), V16383} => n = 2
               /\ val \in {U64(16384), V1073741823} => n = 4
               /\ val \in {U64(1073741824), V4611686018427387903} => n = 8

\* 2^62 - 1 has been encoded in 8 bytes
C9_Witness ==
    /\ pc = "done" /\ val = V4611686018427387903
    /\ vout.tag = "Ok" /\ Len(vout.val[1]) = 8

\* both address families of a substructure decode to absent
BothAbsent(b) == Len(b) >= 24 /\ Take(b, 24) = Rep(0, 24)

\* the connection-id length is 0 or in range and the id and the token are present
Complete(b) ==
    /\ Len(b) >= 25
    /\ (b[25] = 0 \/ b[25] \in MIN_CID_SIZE..MAX_CID_SIZE)
    /\ Len(b) >= 25 + b[25] + 16

\* C10 (as stated): a substructure with both address families absent is rejected
\* with Malformed by PreferredAddress::read, and so is a 0x000d entry carrying it
\* by TransportParameters::read
C10_NoAddressMalformed ==
    (pc \in {"address", "done"} /\ BothAbsent(sub))
        => /\ paout.res = Err("Malformed")
           /\ pc = "done" => result = Err("Malformed")

\* C10 (amended): a substructure with both address families absent, a
\* connection-id length of 0 or within [MIN_CID_SIZE, MAX_CID_SIZE] and its
\* connection id and token present is rejected with IllegalValue by
\* PreferredAddress::read, and so is a 0x000d entry carrying it by
\* TransportParameters::read; with a bad length or a missing byte the error is
\* Malformed
C10_NoAddressIllegalValue ==
    (pc \in {"address", "done"} /\ BothAbsent(sub))
        => /\ Complete(sub) => /\ paout.res = Err("IllegalValue")
                               /\ pc = "done" => result = Err("IllegalValue")
           /\ ~Complete(sub) => /\ paout.res = Err("Malformed")
                                /\ pc = "done" => result = Err("Malformed")

\* a 0x000d entry with both families absent and an 18-byte connection id has been
\* rejected
C10_Witness ==
    /\ pc = "done" /\ BothAbsent(sub) /\ Complete(sub) /\ sub[25] = 18
    /\ paout.res = Err("IllegalValue") /\ result = Err("IllegalValue")

\* the bytes of the block from entry i on, after the 4-byte header of entry i
BodyFrom(i) == Drop(Flatten(Drop(msg, i - 1)), 4)

\* the loop iteration that starts at entry i takes exactly the declared length
ConsumesDeclared(i) ==
    LET e == ReadEntry(CodeOf(msg[i]), LenOf(msg[i]), BodyFrom(i), Default, {})
    IN  e.res.tag = "Ok" /\ e.adv = LenOf(msg[i])

\* C11: in a successful read every entry consumes exactly its declared length, so
\* the next header starts that many bytes after the entry's value begins, for
\* 0x000d too: the surplus of a 0x000d entry that declares more than 41 +
\* connection-id length bytes is never read as further entries
C11_ExactConsumption ==
    ( /\ pc = "done" /\ wire = Frame(pre, msg)
      /\ \A i \in 1..Len(msg) : Len(msg[i]) = 4 + LenOf(msg[i])
      /\ result.tag = "Ok" )
        => \A i \in 1..Len(msg) : ConsumesDeclared(i)

====
